---- MODULE Spec2Model ----
(***************************************************************************)
(* GEODES front-end: the PDB sanitizers (clean_pdb_for_dssp,               *)
(* clean_pdb_minimal, clean_pdb_for_mkdssp), the batch loop of the         *)
(* "Run Analysis" button of app.py and the command-line glue of           *)
(* robust_pdb_cleaner.py.                                                  *)
(*                                                                         *)
(* A Python string is a sequence of symbols.  A symbol is one character,   *)
(* except that a run of columns no code path looks into (the payload of a  *)
(* HEADER line, for instance) is kept as one symbol.  A file's content is  *)
(* the sequence of symbols written to it, so readlines() and writelines()  *)
(* are modelled by what they do to the line terminators.                   *)
(***************************************************************************)
EXTENDS Integers, Sequences, FiniteSets, TLC

\* Longest input file of the sanitizer specification, in lines.
MaxLines == 3
\* Longest upload list of a batch run.
MaxFiles == 3
\* Number of "Run Analysis" clicks followed in the batch specification.
MaxRuns == 2

NL == "\n"

Min(a, b) == IF a < b THEN a ELSE b

-----------------------------------------------------------------------------
(* String literals of the source, as symbol sequences.                     *)

\* 'HEADER    PROTEIN                                 01-JAN-00   XXXX\n'
SYNTH_HEADER == <<"H", "E", "A", "D", "E", "R", "    PROTEIN 01-JAN-00   XXXX", NL>>
\* 'END\n'
END_LINE == <<"E", "N", "D", NL>>

P_HEADER == <<"H", "E", "A", "D", "E", "R">>
P_ATOM == <<"A", "T", "O", "M">>
P_ATOM6 == <<"A", "T", "O", "M", " ", " ">>
P_HETATM == <<"H", "E", "T", "A", "T", "M">>
P_TER == <<"T", "E", "R">>
P_END == <<"E", "N", "D">>
P_END6 == <<"E", "N", "D", " ", " ", " ">>
P_MODEL == <<"M", "O", "D", "E", "L">>
P_MODEL6 == <<"M", "O", "D", "E", "L", " ">>
P_ENDMDL == <<"E", "N", "D", "M", "D", "L">>
P_CRYST1 == <<"C", "R", "Y", "S", "T", "1">>
P_ORIGX == <<"O", "R", "I", "G", "X">>
P_SCALE == <<"S", "C", "A", "L", "E">>
P_MTRIX == <<"M", "T", "R", "I", "X">>
P_CONECT == <<"C", "O", "N", "E", "C", "T">>
P_TER6 == <<"T", "E", "R", " ", " ", " ">>
P_REMARK == <<"R", "E", "M", "A", "R", "K">>

\* str.startswith(prefix)
StartsWith(line, prefix) ==
    /\ Len(prefix) <= Len(line)
    /\ SubSeq(line, 1, Len(prefix)) = prefix

\* str.startswith(tuple of prefixes)
StartsWithAny(line, prefixes) == \E p \in prefixes : StartsWith(line, p)

-----------------------------------------------------------------------------
(* Files.                                                                  *)

NoFile == [exists |-> FALSE, data |-> <<>>]
File(content) == [exists |-> TRUE, data |-> content]

RECURSIVE SplitLines(_, _, _)
SplitLines(s, cur, acc) ==
    IF s = <<>> THEN (IF cur = <<>> THEN acc ELSE Append(acc, cur))
    ELSE IF Head(s) = NL
         THEN SplitLines(Tail(s), <<>>, Append(acc, Append(cur, NL)))
         ELSE SplitLines(Tail(s), Append(cur, Head(s)), acc)

\* f.readlines(): the lines of the content, each with its terminator; the last
\* line has none when the content does not end in one.
ReadLines(content) == SplitLines(content, <<>>, <<>>)

RECURSIVE Concat(_)
Concat(strs) == IF strs = <<>> THEN <<>> ELSE Head(strs) \o Concat(Tail(strs))

\* f.writelines(lines): the strings one after the other, nothing added.
WriteLines(lines) == Concat(lines)

-----------------------------------------------------------------------------
(* Minimal mode.                                                           *)

IsCoordLine(line) == StartsWithAny(line, {P_ATOM6, P_HETATM})

\* app.py clean_pdb_for_dssp(input_path, output_path)
clean_pdb_for_dssp(files, input_path, output_path) ==
    LET lines == ReadLines(files[input_path].data)
        kept == SelectSeq(lines, IsCoordLine)
        has_atoms == kept # <<>>
        cleaned_lines == <<SYNTH_HEADER>> \o kept \o <<END_LINE>>
    IN  IF ~has_atoms
        THEN [files |-> files, raised |-> "NoAtomRecords"]
        ELSE [files |-> [files EXCEPT ![output_path] = File(WriteLines(cleaned_lines))],
              raised |-> "none"]

\* clean_pdb_minimal with the output opened for writing before the check
clean_pdb_minimal_OpenFirst(fs, input_path, output_path) ==
    LET lines == ReadLines(fs[input_path].data)
        kept == SelectSeq(lines, IsCoordLine)
        cleaned_lines == <<SYNTH_HEADER>> \o kept \o <<END_LINE>>
    IN  IF kept = <<>>
        THEN [files |-> [fs EXCEPT ![output_path] = File(<<>>)], raised |-> "NoAtomRecords"]
        ELSE [files |-> [fs EXCEPT ![output_path] = File(WriteLines(cleaned_lines))],
              raised |-> "none"]

\* robust_pdb_cleaner.py clean_pdb_minimal(input_path, output_path)
clean_pdb_minimal(files, input_path, output_path) ==
    LET lines == ReadLines(files[input_path].data)
        kept == SelectSeq(lines, IsCoordLine)
        has_atoms == kept # <<>>
        cleaned_lines == <<SYNTH_HEADER>> \o kept \o <<END_LINE>>
    IN  IF ~has_atoms
        THEN [files |-> files, raised |-> "NoAtomRecords"]
        ELSE [files |-> [files EXCEPT ![output_path] = File(WriteLines(cleaned_lines))],
              raised |-> "none"]

-----------------------------------------------------------------------------
(* Permissive mode, first half: the structure is parsed and written back   *)
(* by Bio.PDB (PDBParser(QUIET=True).get_structure, PDBIO.save), a library *)
(* the repository calls; the operators below follow the library:           *)
(*   - the parser reads ATOM and HETATM records into models, chains and    *)
(*     residues, opens a model at MODEL or at the first atom, closes it at *)
(*     ENDMDL, stops at 'END   ' or CONECT and ignores every other record; *)
(*     a file of no lines raises ValueError("Empty file.");                *)
(*   - the writer emits, per model, the accepted atoms chain by chain with *)
(*     serial numbers counted from 1, a TER after each chain that wrote an *)
(*     atom, MODEL/ENDMDL when there are several models, and 'END   '.     *)
(* A coordinate line is record type (columns 1-6), then one symbol each    *)
(* for the atom serial number, the chain identifier and the residue        *)
(* sequence number; coordinates are well formed and every atom is in a     *)
(* residue of its own, so no atom is defined twice.                        *)

Digits == <<"0", "1", "2", "3", "4", "5", "6", "7", "8", "9">>
Digit(n) == Digits[n + 1]

\* line.rstrip("\n")
Stripped(line) ==
    IF line # <<>> /\ line[Len(line)] = NL THEN SubSeq(line, 1, Len(line) - 1) ELSE line

\* line[0:6]
RecordType(line) == SubSeq(Stripped(line), 1, Min(6, Len(Stripped(line))))

EmptyStructure == [models |-> <<>>, model_open |-> FALSE]

\* PDBParser._get_header: everything before the first ATOM, HETATM or MODEL
\* record is header and is not seen by the coordinate parser.
RECURSIVE CoordsTrailer(_)
CoordsTrailer(lines) ==
    IF lines = <<>> THEN <<>>
    ELSE IF RecordType(Head(lines)) \in {P_ATOM6, P_HETATM, P_MODEL6} THEN lines
    ELSE CoordsTrailer(Tail(lines))

\* StructureBuilder.init_chain / init_residue / init_atom on the open model:
\* a chain identifier already present in the model is reused (a discontinuous
\* chain), otherwise a new chain is appended.
AddAtom(model, chain_id, atom) ==
    IF \E i \in 1..Len(model.chains) : model.chains[i].id = chain_id
    THEN [model EXCEPT !.chains =
            [i \in 1..Len(model.chains) |->
                IF model.chains[i].id = chain_id
                THEN [model.chains[i] EXCEPT !.atoms = Append(@, atom)]
                ELSE model.chains[i]]]
    ELSE [model EXCEPT !.chains = Append(@, [id |-> chain_id, atoms |-> <<atom>>])]

\* PDBParser._parse_coordinates
RECURSIVE ParseCoordinates(_, _)
ParseCoordinates(lines, st) ==
    IF lines = <<>> THEN st
    ELSE
      LET line == Stripped(Head(lines))
          record_type == RecordType(Head(lines))
          n == Len(st.models)
      IN  IF record_type \in {P_ATOM6, P_HETATM}
          THEN LET opened == IF st.model_open THEN st.models
                             ELSE Append(st.models, [serial |-> Digit(n), chains |-> <<>>])
                   atom == [het |-> record_type = P_HETATM, resseq |-> line[9]]
                   last == Len(opened)
               IN  ParseCoordinates(Tail(lines),
                       [models |-> [opened EXCEPT ![last] = AddAtom(@, line[8], atom)],
                        model_open |-> TRUE])
          ELSE IF record_type = P_MODEL6
          THEN ParseCoordinates(Tail(lines),
                   [models |-> Append(st.models, [serial |-> line[7], chains |-> <<>>]),
                    model_open |-> TRUE])
          ELSE IF record_type \in {P_END6, P_CONECT}
          THEN st
          ELSE IF record_type = P_ENDMDL
          THEN ParseCoordinates(Tail(lines), [st EXCEPT !.model_open = FALSE])
          ELSE ParseCoordinates(Tail(lines), st)

\* PDBParser.get_structure on the lines of the input file
get_structure(lines) == ParseCoordinates(CoordsTrailer(lines), EmptyStructure).models

\* CleanSelect.accept_residue: residue.id[0] == ' ' (the residue of an ATOM
\* record); without a Select every residue is accepted.
accept_residue(atom, keep_hetatm) == keep_hetatm \/ ~atom.het

AtomLine(atom, chain_id, atom_number) ==
    (IF atom.het THEN P_HETATM ELSE P_ATOM6)
        \o <<Digit(atom_number), chain_id, atom.resseq, NL>>

TerLine(chain_id, atom_number) == P_TER6 \o <<Digit(atom_number), chain_id, NL>>

RECURSIVE SaveChains(_, _, _)
SaveChains(chains, atom_number, keep_hetatm) ==
    IF chains = <<>> THEN [lines |-> <<>>, written |-> FALSE]
    ELSE
      LET chain == Head(chains)
          Accepted(a) == accept_residue(a, keep_hetatm)
          atoms == SelectSeq(chain.atoms, Accepted)
          own == [i \in 1..Len(atoms) |-> AtomLine(atoms[i], chain.id, atom_number + i - 1)]
          ter == IF atoms # <<>> THEN <<TerLine(chain.id, atom_number + Len(atoms))>>
                 ELSE <<>>
          rest == SaveChains(Tail(chains), atom_number + Len(atoms), keep_hetatm)
      IN  [lines |-> own \o ter \o rest.lines, written |-> atoms # <<>> \/ rest.written]

RECURSIVE SaveModels(_, _, _)
SaveModels(models, model_flag, keep_hetatm) ==
    IF models = <<>> THEN <<>>
    ELSE
      LET body == SaveChains(Head(models).chains, 1, keep_hetatm)
      IN  (IF model_flag THEN <<P_MODEL6 \o <<Head(models).serial, NL>>>> ELSE <<>>)
            \o body.lines
            \o (IF model_flag /\ body.written THEN <<P_ENDMDL \o <<NL>>>> ELSE <<>>)
            \o SaveModels(Tail(models), model_flag, keep_hetatm)

\* PDBIO.save(path, select): MODEL/ENDMDL only for a structure of several
\* models, a TER after each chain that wrote an atom, and a closing END.
io_save(models, keep_hetatm) ==
    SaveModels(models, Len(models) > 1, keep_hetatm) \o <<P_END6 \o <<NL>>>>

-----------------------------------------------------------------------------
(* Permissive mode, second half: the line filter over the rewritten file.  *)

KEEP_STRUCTURE == {P_ATOM, P_HETATM, P_TER, P_END, P_MODEL, P_ENDMDL}
KEEP_CRYSTAL == {P_CRYST1, P_ORIGX, P_SCALE, P_MTRIX}

\* the for loop of clean_pdb_for_mkdssp
IsRetained(line) ==
    \/ StartsWith(line, P_HEADER)
    \/ StartsWithAny(line, KEEP_STRUCTURE)
    \/ StartsWithAny(line, KEEP_CRYSTAL)

\* "if not has_header: cleaned_lines.insert(0, header)"
EnsureHeader(cleaned_lines) ==
    IF \E i \in 1..Len(cleaned_lines) : StartsWith(cleaned_lines[i], P_HEADER)
    THEN cleaned_lines
    ELSE <<SYNTH_HEADER>> \o cleaned_lines

\* NeedsEnd with the test on the last line lost: END is always appended
NeedsEnd_Always(cleaned_lines) == TRUE

\* "if not cleaned_lines or not cleaned_lines[-1].startswith('END')"
NeedsEnd(cleaned_lines) ==
    \/ cleaned_lines = <<>>
    \/ ~StartsWith(cleaned_lines[Len(cleaned_lines)], P_END)

EnsureEnd(cleaned_lines) ==
    IF NeedsEnd(cleaned_lines) THEN Append(cleaned_lines, END_LINE) ELSE cleaned_lines

\* lines 51-81 of robust_pdb_cleaner.py: the filter applied to the lines read
\* back from the output file
FilterLines(lines) == EnsureEnd(EnsureHeader(SelectSeq(lines, IsRetained)))

\* robust_pdb_cleaner.py clean_pdb_for_mkdssp(input_path, output_path, keep_hetatm)
clean_pdb_for_mkdssp(files, input_path, output_path, keep_hetatm) ==
    LET source == ReadLines(files[input_path].data)
        saved == WriteLines(io_save(get_structure(source), keep_hetatm))
        cleaned_lines == FilterLines(ReadLines(saved))
    IN  IF source = <<>>
        THEN [files |-> files, raised |-> "EmptyFile"]
        ELSE [files |-> [files EXCEPT ![output_path] = File(WriteLines(cleaned_lines))],
              raised |-> "none"]

-----------------------------------------------------------------------------
(* State.                                                                  *)

VARIABLES
    files,            \* the file system: path -> [exists, data]
    pc,               \* position of the program being followed
    fn,               \* sanitizer specification: the function under call
    keep_hetatm,      \* sanitizer specification: argument of clean_pdb_for_mkdssp
    raised,           \* the exception of the latest sanitizer call, or "none"
    uploaded_files,   \* batch: the upload list, a sequence of [name, data]
    idx,              \* batch: index of the next file of the loop
    processed_count,  \* batch: processed_count of app.py
    failed,           \* batch: names reported by st.error in the loop
    calc_dir,         \* batch: the input directory as the calculator saw it
    runs,             \* batch: clicks of "Run Analysis" so far
    log               \* command line: sanitizer and tool calls made, in order

vars == <<files, pc, fn, keep_hetatm, raised, uploaded_files, idx,
          processed_count, failed, calc_dir, runs, log>>

batchVars == <<uploaded_files, idx, processed_count, failed, calc_dir, runs>>

Path(dir, name) == [dir |-> dir, name |-> name]

\* paths of the sanitizer specification and of the command line
IN_PATH == Path("cwd", 0)
OUT_PATH == Path("cwd", 1)
OUT2_PATH == Path("cwd", 2)

\* the working directory of a sanitizer call
CwdPaths == {IN_PATH, OUT_PATH, OUT2_PATH}

\* the upload names and the temporary directories of app.py
Names == 1..MaxFiles
DirPaths == {Path(d, n) : d \in {"raw", "input", "output"}, n \in Names}

-----------------------------------------------------------------------------
(* Input files of the sanitizer: up to MaxLines records, the coordinate    *)
(* records pairwise distinct (line i carries residue number i), the last   *)
(* line with or without its terminator.                                    *)

Templates ==
    {"ATOM_A", "ATOM_B", "HETATM_A", "END", "MODEL", "ENDMDL",
     "HEADER", "CRYST1", "REMARK"}

LineOf(t, i) ==
    CASE t = "ATOM_A" -> P_ATOM6 \o <<Digit(i), "A", Digit(i), NL>>
      [] t = "ATOM_B" -> P_ATOM6 \o <<Digit(i), "B", Digit(i), NL>>
      [] t = "HETATM_A" -> P_HETATM \o <<Digit(i), "A", Digit(i), NL>>
      [] t = "END" -> P_END6 \o <<NL>>
      [] t = "MODEL" -> P_MODEL6 \o <<Digit(i), NL>>
      [] t = "ENDMDL" -> P_ENDMDL \o <<NL>>
      [] t = "HEADER" -> P_HEADER \o <<"    HYDROLASE 12-MAR-98   1ABC", NL>>
      [] t = "CRYST1" -> P_CRYST1 \o <<"   50.000   60.000   70.000", NL>>
      [] t = "REMARK" -> P_REMARK \o <<"   2 RESOLUTION.", NL>>

Content(ts, terminated) ==
    LET c == Concat([i \in 1..Len(ts) |-> LineOf(ts[i], i)])
    IN  IF terminated \/ c = <<>> THEN c ELSE SubSeq(c, 1, Len(c) - 1)

InputFiles ==
    UNION {{Content(ts, nl) : ts \in [1..k -> Templates], nl \in BOOLEAN} : k \in 0..MaxLines}

\* what an earlier, unrelated write left at the output location
STALE == <<"s", "t", "a", "l", "e", NL>>

NoFiles(paths) == [p \in paths |-> NoFile]

-----------------------------------------------------------------------------
(* Sanitizer specification: one call of a sanitizer on the input file,     *)
(* then the same call on its own output.                                   *)

Functions == {"clean_pdb_for_dssp", "clean_pdb_minimal", "clean_pdb_for_mkdssp"}

Call(f, keep, fs, input_path, output_path) ==
    CASE f = "clean_pdb_for_dssp" -> clean_pdb_for_dssp(fs, input_path, output_path)
      [] f = "clean_pdb_minimal" -> clean_pdb_minimal(fs, input_path, output_path)
      [] f = "clean_pdb_for_mkdssp" -> clean_pdb_for_mkdssp(fs, input_path, output_path, keep)

InitSanitizer ==
    /\ \E data \in InputFiles, old \in {NoFile, File(STALE)} :
          files = [NoFiles(CwdPaths) EXCEPT ![IN_PATH] = File(data), ![OUT_PATH] = old]
    /\ pc = "start"
    /\ fn = "none"
    /\ keep_hetatm = FALSE
    /\ raised = "none"
    /\ uploaded_files = <<>>
    /\ idx = 0
    /\ processed_count = 0
    /\ failed = {}
    /\ calc_dir = <<>>
    /\ runs = 0
    /\ log = <<>>

\* sanitize(x, mode): the first call, from IN_PATH to OUT_PATH
Sanitize(f, keep) ==
    /\ pc = "start"
    /\ (keep => f = "clean_pdb_for_mkdssp")
    /\ \E r \in {Call(f, keep, files, IN_PATH, OUT_PATH)} :
           /\ files' = r.files
           /\ raised' = r.raised
    /\ fn' = f
    /\ keep_hetatm' = keep
    /\ pc' = "once"
    /\ UNCHANGED <<batchVars, log>>

\* sanitize(sanitize(x, mode), mode): the same call from OUT_PATH to OUT2_PATH
Resanitize ==
    /\ pc = "once"
    /\ raised = "none"
    /\ \E r \in {Call(fn, keep_hetatm, files, OUT_PATH, OUT2_PATH)} :
           /\ files' = r.files
           /\ raised' = r.raised
    /\ pc' = "twice"
    /\ UNCHANGED <<fn, keep_hetatm, batchVars, log>>

NextSanitizer ==
    \/ \E f \in Functions, keep \in BOOLEAN : Sanitize(f, keep)
    \/ Resanitize

SpecSanitizer == InitSanitizer /\ [][NextSanitizer]_vars

-----------------------------------------------------------------------------
(* Batch specification: the "Run Analysis" button of app.py.  The k-th     *)
(* uploaded file is named k, so the names of one upload list are distinct. *)

UploadContents ==
    {<<>>,
     Content(<<"REMARK">>, TRUE),
     Content(<<"REMARK", "ATOM_A">>, TRUE),
     Content(<<"HETATM_A">>, FALSE)}

UploadLists ==
    UNION {{[i \in 1..k |-> [name |-> i, data |-> d[i]]] : d \in [1..k -> UploadContents]}
              : k \in 1..MaxFiles}

WorkDirs == {"input", "raw", "output"}

\* RecreateDirs with input_dir left out of the list
RecreateDirs_NotInput(fs) ==
    [p \in DOMAIN fs |-> IF p.dir \in {"raw", "output"} THEN NoFile ELSE fs[p]]

\* "for dir_path in [input_dir, raw_dir, output_dir]: rmtree; mkdir"
RecreateDirs(fs) == [p \in DOMAIN fs |-> IF p.dir \in WorkDirs THEN NoFile ELSE fs[p]]

\* the except clause of the per-file loop: st.error, continue
AfterFileFailure == "loop"

\* AfterLoop without the st.stop()
AfterLoop_NoStop(count) == "config"

\* "if processed_count == 0: st.error(...); st.stop()"
AfterLoop(count) == IF count = 0 THEN "stopped" ELSE "config"

InitBatch ==
    /\ files = NoFiles(DirPaths)
    /\ pc = "idle"
    /\ fn = "none"
    /\ keep_hetatm = FALSE
    /\ raised = "none"
    /\ uploaded_files = <<>>
    /\ idx = 0
    /\ processed_count = 0
    /\ failed = {}
    /\ calc_dir = <<>>
    /\ runs = 0
    /\ log = <<>>

\* the button is pressed with a non-empty upload list: lines 122-142
RunAnalysis(list) ==
    /\ pc \in {"idle", "done", "stopped", "error"}
    /\ runs < MaxRuns
    /\ uploaded_files' = list
    /\ files' = RecreateDirs(files)
    /\ processed_count' = 0
    /\ idx' = 1
    /\ failed' = {}
    /\ calc_dir' = <<>>
    /\ runs' = runs + 1
    /\ pc' = "loop"
    /\ UNCHANGED <<fn, keep_hetatm, raised, log>>

\* one iteration of "for i, f in enumerate(uploaded_files)": lines 144-161
ProcessFile ==
    /\ pc = "loop"
    /\ idx <= Len(uploaded_files)
    /\ LET f == uploaded_files[idx]
           raw_path == Path("raw", f.name)
           cleaned_path == Path("input", f.name)
           saved == [files EXCEPT ![raw_path] = File(f.data)]
           r == clean_pdb_for_dssp(saved, raw_path, cleaned_path)
       IN  /\ files' = r.files
           /\ raised' = r.raised
           /\ IF r.raised = "none"
              THEN /\ processed_count' = processed_count + 1
                   /\ failed' = failed
                   /\ pc' = "loop"
              ELSE /\ processed_count' = processed_count
                   /\ failed' = failed \cup {f.name}
                   /\ pc' = AfterFileFailure
    /\ idx' = idx + 1
    /\ UNCHANGED <<fn, keep_hetatm, uploaded_files, calc_dir, runs, log>>

\* the loop is over: lines 163-165
CheckProcessed ==
    /\ pc = "loop"
    /\ idx > Len(uploaded_files)
    /\ pc' = AfterLoop(processed_count)
    /\ UNCHANGED <<files, fn, keep_hetatm, raised, batchVars, log>>

\* ast.literal_eval of the two text inputs: lines 168-170
ParseConfig(ok) ==
    /\ pc = "config"
    /\ pc' = IF ok THEN "calc" ELSE "error"
    /\ UNCHANGED <<files, fn, keep_hetatm, raised, batchVars, log>>

\* DescCalculator(...) and calc_all(input_dir): lines 174-178
RunCalculator(ok) ==
    /\ pc = "calc"
    /\ calc_dir' = Append(calc_dir, [n \in Names |-> files[Path("input", n)]])
    /\ pc' = IF ok THEN "done" ELSE "error"
    /\ UNCHANGED <<files, fn, keep_hetatm, raised, uploaded_files, idx,
                   processed_count, failed, runs, log>>

NextBatch ==
    \/ \E list \in UploadLists : RunAnalysis(list)
    \/ ProcessFile
    \/ CheckProcessed
    \/ \E ok \in BOOLEAN : ParseConfig(ok)
    \/ \E ok \in BOOLEAN : RunCalculator(ok)

SpecBatch == InitBatch /\ [][NextBatch]_vars

-----------------------------------------------------------------------------
(* Command-line specification: the __main__ block of                       *)
(* robust_pdb_cleaner.py, called with an input and an output path (with    *)
(* fewer arguments it prints the usage line and exits).                    *)

ToolOutcomes == {"rc0", "nonzero", "TimeoutExpired"}

Entry(call, result) == [call |-> call, result |-> result]

\* after subprocess.run: returncode 0, the else branch, or the exception
\* caught by "except Exception" at the bottom of the block
AfterFirstTool(outcome) ==
    CASE outcome = "rc0" -> "done"
      [] outcome = "nonzero" -> "minimal"
      [] outcome = "TimeoutExpired" -> "error"

AfterSecondTool(outcome) ==
    CASE outcome = "rc0" -> "done"
      [] outcome = "nonzero" -> "done"
      [] outcome = "TimeoutExpired" -> "error"

InitMain ==
    /\ \E data \in InputFiles : files = [NoFiles(CwdPaths) EXCEPT ![IN_PATH] = File(data)]
    /\ pc = "main"
    /\ fn = "none"
    /\ keep_hetatm = FALSE
    /\ raised = "none"
    /\ uploaded_files = <<>>
    /\ idx = 0
    /\ processed_count = 0
    /\ failed = {}
    /\ calc_dir = <<>>
    /\ runs = 0
    /\ log = <<>>

\* "clean_pdb_for_mkdssp(input_file, output_file)": line 131
MainPermissive ==
    /\ pc = "main"
    /\ \E r \in {clean_pdb_for_mkdssp(files, IN_PATH, OUT_PATH, FALSE)} :
           /\ files' = r.files
           /\ raised' = r.raised
           /\ log' = Append(log, Entry("clean_pdb_for_mkdssp", r.raised))
           /\ pc' = IF r.raised = "none" THEN "tool1" ELSE "error"
    /\ UNCHANGED <<fn, keep_hetatm, batchVars>>

\* the first subprocess.run(['mkdssp', ...], timeout=10): lines 137-149
FirstTool(outcome) ==
    /\ pc = "tool1"
    /\ log' = Append(log, Entry("mkdssp", outcome))
    /\ pc' = AfterFirstTool(outcome)
    /\ UNCHANGED <<files, fn, keep_hetatm, raised, batchVars>>

\* "clean_pdb_minimal(input_file, output_file)": line 152
MainMinimal ==
    /\ pc = "minimal"
    /\ \E r \in {clean_pdb_minimal(files, IN_PATH, OUT_PATH)} :
           /\ files' = r.files
           /\ raised' = r.raised
           /\ log' = Append(log, Entry("clean_pdb_minimal", r.raised))
           /\ pc' = IF r.raised = "none" THEN "tool2" ELSE "error"
    /\ UNCHANGED <<fn, keep_hetatm, batchVars>>

\* the second subprocess.run: lines 154-165
SecondTool(outcome) ==
    /\ pc = "tool2"
    /\ log' = Append(log, Entry("mkdssp", outcome))
    /\ pc' = AfterSecondTool(outcome)
    /\ UNCHANGED <<files, fn, keep_hetatm, raised, batchVars>>

NextMain ==
    \/ MainPermissive
    \/ \E outcome \in ToolOutcomes : FirstTool(outcome)
    \/ MainMinimal
    \/ \E outcome \in ToolOutcomes : SecondTool(outcome)

SpecMain == InitMain /\ [][NextMain]_vars

-----------------------------------------------------------------------------
(* Vocabulary of the properties.                                           *)

RECURSIVE RTrim(_)
RTrim(s) == IF s # <<>> /\ s[Len(s)] = " " THEN RTrim(SubSeq(s, 1, Len(s) - 1)) ELSE s

\* the record kind of a line: its first six characters, blanks trimmed
Kind(line) == RTrim(RecordType(line))

IsHeaderRecord(line) == Kind(line) = P_HEADER
IsEndRecord(line) == Kind(line) = P_END
IsCoordRecord(line) == Kind(line) \in {P_ATOM, P_HETATM}

Indices(lines, Test(_)) == {i \in 1..Len(lines) : Test(lines[i])}

\* the three invariants of a Sanitized Document
SanitizedDocument(lines) ==
    /\ Indices(lines, IsHeaderRecord) = {1}
    /\ Indices(lines, IsCoordRecord) # {}
    /\ Indices(lines, IsEndRecord) = {Len(lines)}

InputLines == ReadLines(files[IN_PATH].data)
OutputLines == ReadLines(files[OUT_PATH].data)

MinimalFunctions == {"clean_pdb_for_dssp", "clean_pdb_minimal"}
CalledOnce == pc = "once"
Succeeded == raised = "none"
PermissiveDefault == fn = "clean_pdb_for_mkdssp" /\ ~keep_hetatm

-----------------------------------------------------------------------------
(* Properties.                                                             *)

\* C1: in both modes sanitize either fails or writes a document with exactly
\* one HEADER record, first; at least one ATOM/HETATM record; exactly one END
\* record, last.
C1_ResultGuarantee ==
    (CalledOnce /\ Succeeded) => SanitizedDocument(OutputLines)

\* C2: an input without any ATOM/HETATM record makes sanitize fail, in
\* minimal and in permissive mode.
C2_NoCoordinateDataFails ==
    (CalledOnce /\ Indices(InputLines, IsCoordRecord) = {}) => ~Succeeded

\* C3: sanitizing the output of a successful sanitize again, in the same
\* mode, succeeds and gives the same document line for line.
C3_Idempotent ==
    pc = "twice" =>
        /\ Succeeded
        /\ ReadLines(files[OUT2_PATH].data) = OutputLines

\* C4: in minimal mode an input with a coordinate record gives exactly the
\* synthesized HEADER line, the input's ATOM/HETATM lines in order, one END line.
C4_MinimalOutput ==
    (CalledOnce /\ fn \in MinimalFunctions /\ Indices(InputLines, IsCoordRecord) # {}) =>
        /\ Succeeded
        /\ OutputLines = <<SYNTH_HEADER>> \o SelectSeq(InputLines, IsCoordRecord)
                            \o <<END_LINE>>

ListedKinds ==
    {P_ATOM, P_HETATM, P_TER, P_END, P_MODEL, P_ENDMDL, P_CRYST1,
     <<"O", "R", "I", "G", "X", "1">>, <<"S", "C", "A", "L", "E", "1">>,
     <<"M", "T", "R", "I", "X", "1">>}

IsListedRecord(line) == Kind(line) \in ListedKinds

\* the output without its HEADER line
Body(lines) == IF lines # <<>> /\ IsHeaderRecord(lines[1]) THEN Tail(lines) ELSE lines

\* C5: in permissive mode with the default arguments the body of the output
\* is exactly the input's records of the ten listed kinds, in input order
\* (followed by the synthesized END when one is added).
C5_PermissiveBody ==
    (CalledOnce /\ PermissiveDefault /\ Succeeded) =>
        LET listed == SelectSeq(InputLines, IsListedRecord)
        IN  Body(OutputLines) \in {listed, Append(listed, END_LINE)}

\* the lines clean_pdb_for_mkdssp reads back at line 52, and cleaned_lines as
\* it stands before the END step
ReadBack == ReadLines(WriteLines(io_save(get_structure(InputLines), keep_hetatm)))
BeforeEndStep == EnsureHeader(SelectSeq(ReadBack, IsRetained))

HasCoordRecord(data) == Indices(ReadLines(data), IsCoordRecord) # {}

\* the minimal-mode document of an upload
MinimalDocument(data) ==
    WriteLines(<<SYNTH_HEADER>> \o SelectSeq(ReadLines(data), IsCoordRecord) \o <<END_LINE>>)

SucceededIn(list) == {n \in 1..Len(list) : HasCoordRecord(list[n].data)}

C8_CalculatorNeedsAFile ==
    /\ (pc \notin {"idle", "loop"} /\ processed_count = 0) =>
          (pc = "stopped" /\ calc_dir = <<>>)
    /\ (pc \in {"config", "calc"} \/ calc_dir # <<>>) => processed_count >= 1

\* C8 witness: a run of several files, all failed, stopped without calculator.
C8_Witness ==
    /\ pc = "stopped"
    /\ Len(uploaded_files) > 1
    /\ Cardinality(failed) = Len(uploaded_files)
    /\ calc_dir = <<>>

Rejections == {"nonzero", "TimeoutExpired"}

\* C9: the command line sanitizes permissively first; a non-zero return code
\* and a timeout of the first tool run both lead to clean_pdb_minimal and a
\* second tool run; a successful first tool run leads to no retry.
C9_RetryOnEveryRejection ==
    (pc \in {"done", "error"}) =>
        /\ log[1].call = "clean_pdb_for_mkdssp"
        /\ (Len(log) >= 2 /\ log[2].result \in Rejections) =>
              /\ Len(log) >= 3
              /\ log[3].call = "clean_pdb_minimal"
              /\ log[3].result = "none" => (Len(log) = 4 /\ log[4].call = "mkdssp")
        /\ (Len(log) >= 2 /\ log[2].result = "rc0") => Len(log) = 2

\* C10: a minimal-mode call that fails for lack of coordinate records leaves
\* the output location as it was: nothing created, nothing truncated.
C10_FailureLeavesOutput ==
    [][(pc = "start" /\ pc' = "once" /\ fn' \in MinimalFunctions
            /\ raised' = "NoAtomRecords")
          => files'[OUT_PATH] = files[OUT_PATH]]_vars

\* C10 witness: a failed minimal-mode call with the earlier file still there.
C10_Witness ==
    /\ CalledOnce
    /\ fn \in MinimalFunctions
    /\ raised = "NoAtomRecords"
    /\ files[OUT_PATH] = File(STALE)

====
